---------------------------- MODULE Spec2Model ----------------------------
(***************************************************************************)
(* The index layer of src/mongo/db/index.cpp: IndexDetails::insert,        *)
(* insertPair, deleteObject and cursor over one physical dictionary.       *)
(*                                                                         *)
(* BSON objects are modelled as the byte strings they are (sequences of    *)
(* numbers 0..255), the dictionary as a function from physical key bytes   *)
(* to value bytes.                                                         *)
(***************************************************************************)
EXTENDS Integers, Sequences, FiniteSets, TLC

(* ------------------------------ bounds --------------------------------- *)

\* the documents callers pass are the first NumDocs of DocList
NumDocs == 7
\* threads of the interleaved specification
NumThreads == 2
\* calls the threads of the interleaved specification begin, in all
MaxCalls == 2

(* --------------------------- store constants --------------------------- *)

\* put flag: fail with DB_KEYEXIST when the key is present
DB_NOOVERWRITE == 20
\* del flag: do not look the key up first, a missing key is success
DB_DELETE_ANY == 65536
\* put response: the key is already present
DB_KEYEXIST == -30996
\* del response without DB_DELETE_ANY: the key is not present
DB_NOTFOUND == -30989
\* any other non-zero response of the store
EIO == 5
ENOENT == 2

(* ------------------------------- BSON ---------------------------------- *)

\* little-endian int32, as BSON stores sizes and NumberInt values
Int32LE(n) ==
    << n % 256, (n \div 256) % 256, (n \div 65536) % 256, (n \div 16777216) % 256 >>

ReadInt32LE(b, at) ==
    b[at] + 256 * b[at + 1] + 65536 * b[at + 2] + 16777216 * b[at + 3]

\* BSONObj::objsize(): the int32 the object's bytes start with
ObjSize(b) == ReadInt32LE(b, 1)

\* a BSON object around the bytes of its elements: size, elements, EOO
BSONObjOf(body) == Int32LE(Len(body) + 5) \o body \o << 0 >>

\* BSONObj(): the empty object
EmptyObj == BSONObjOf(<< >>)

\* a NumberInt element: type 16, the field name as a C string, the value
ElemInt(name, v) == << 16 >> \o name \o << 0 >> \o Int32LE(v)

RECURSIVE ArrayBody(_, _)
ArrayBody(vals, i) ==
    IF i > Len(vals) THEN << >>
    ELSE ElemInt(<< 47 + i >>, vals[i]) \o ArrayBody(vals, i + 1)

\* an array element: type 4, the field name, the elements under "0", "1", ...
ElemArr(name, vals) == << 4 >> \o name \o << 0 >> \o BSONObjOf(ArrayBody(vals, 1))

\* field names "_id" and "a"
NameId == << 95, 105, 100 >>
NameA == << 97 >>

\* an index key or a primary key: one element with the empty field name
KeyObj(v) == BSONObjOf(ElemInt(<< >>, v))

(* ----------------------------- documents ------------------------------- *)

\* field a of a document: absent, a number, or an array of numbers
ANone == << "none" >>
AInt(v) == << "int", v >>
AArr(vals) == << "arr", vals >>

\* documents { _id: id, a: ... }. The values 1, 256 and 65536 differ in one
\* byte of their int32 each.
DocList ==
    << [ id |-> 1, a |-> AInt(1) ],
       [ id |-> 2, a |-> AInt(1) ],
       [ id |-> 1, a |-> AInt(256) ],
       [ id |-> 1, a |-> AArr(<< 1, 256 >>) ],
       [ id |-> 2, a |-> AArr(<< 256, 1 >>) ],
       [ id |-> 1, a |-> ANone ],
       [ id |-> 2, a |-> AArr(<< 1, 1 >>) ],
       [ id |-> 3, a |-> AInt(65536) ] >>

Docs == { DocList[i] : i \in 1 .. NumDocs }

\* the bytes of a document
DocObj(d) ==
    BSONObjOf(
        ElemInt(NameId, d.id)
        \o (CASE d.a[1] = "none" -> << >>
              [] d.a[1] = "int" -> ElemInt(NameA, d.a[2])
              [] d.a[1] = "arr" -> ElemArr(NameA, d.a[2])))

\* the values and the _ids of the documents
ValsOf(d) ==
    CASE d.a[1] = "none" -> {}
      [] d.a[1] = "int" -> { d.a[2] }
      [] d.a[1] = "arr" -> { d.a[2][i] : i \in 1 .. Len(d.a[2]) }
Vals == UNION { ValsOf(d) : d \in Docs }
PKs == { d.id : d \in Docs }

\* the encodings, computed once
DocTab == [ d \in Docs |-> DocObj(d) ]
KeyTab == [ v \in Vals \cup PKs |-> KeyObj(v) ]

\* the primary key of a document: its _id under the empty field name
PkOf(d) == KeyTab[d.id]

RECURSIVE SortedSeq(_)
SortedSeq(S) ==
    IF S = {} THEN << >>
    ELSE LET m == CHOOSE x \in S : \A y \in S : x <= y
         IN  << m >> \o SortedSeq(S \ {m})

(* --------------------------- index definition -------------------------- *)

\* the definitions an index is opened with: the id index is always unique
IndexInfos ==
    { [ kind |-> "id", unique |-> TRUE ] }
    \cup [ kind : { "clustering", "ordinary" }, unique : BOOLEAN ]

VARIABLES
    info,       \* the index definition, fixed at construction
    store,      \* the physical dictionary: physical key bytes -> value bytes
    multikey,   \* the multikey bit of this index in its NamespaceDetails
    call,       \* the last call of the index layer: operation and arguments
    result,     \* how that call ended: Ok, DuplicateKey, Fatal, Crash
    dbcalls,    \* the store requests that call issued, in order
    prevStore,  \* the dictionary when that call started
    threads,    \* the calls in progress, one per thread (interleaved spec)
    ncalls,     \* the calls begun so far (interleaved and transaction specs)
    txn,        \* the ambient transaction of the caller: none, active,
                \* committed, aborted
    committed,  \* the dictionary as committed: what a rollback restores
    dict,       \* whether the physical dictionary of the index exists
    handle,     \* the IndexDetails object: open or closed
    catalog,    \* how often the index namespace was registered with the catalog
    meta,       \* whether system.indexes holds the entry of the index
    cache,      \* the IndexSpec the spec cache holds: 0 none, n the n-th built
    drop,       \* where kill_idx is: none, invalidated, aborted
    ispec,      \* the IndexSpec last reset: its key pattern, whether _init ran
    lock,       \* the thread that holds _qcMutex, 0 when it is free
    refs        \* per thread, the IndexSpec its reference from getSpec names

txnVars == << txn, committed >>

lifeVars == << dict, handle, catalog, meta, cache, drop, ispec >>

cacheVars == << lock, refs >>

\* the state that insert, deleteObject and cursor leave alone
envVars == << txnVars, lifeVars, cacheVars >>

vars ==
    << info, store, multikey, call, result, dbcalls, prevStore, threads, ncalls,
       envVars >>

IsIdIndex == info.kind = "id"
Clustering == info.kind = "clustering"
Unique == info.unique

\* IndexSpec::getKeys for the one-field pattern of the index: {_id: 1} for the
\* id index, {a: 1} otherwise. An array yields one key per distinct element,
\* an absent field no key.
GetKeys(d) ==
    IF IsIdIndex THEN { d.id }
    ELSE ValsOf(d)

\* getKeysFromObject: the BSONObjSet, in its iteration order (ascending keys)
GetKeysFromObject(d) ==
    LET vs == SortedSeq(GetKeys(d))
    IN  [ i \in 1 .. Len(vs) |-> KeyTab[vs[i]] ]

(* --------------------------- physical store ---------------------------- *)

\* the dictionary with key k bound to value v
StorePut(st, k, v) ==
    [ x \in (DOMAIN st) \cup {k} |-> IF x = k THEN v ELSE st[x] ]

\* the dictionary without key k
StoreDel(st, k) == [ x \in (DOMAIN st) \ {k} |-> st[x] ]

\* DB->put: a store failure, a refused duplicate under DB_NOOVERWRITE, or the
\* binding written (replacing the value of a key already present)
DbPut(st, k, v, flags, fault) ==
    IF fault THEN [ r |-> EIO, st |-> st ]
    ELSE IF flags = DB_NOOVERWRITE /\ k \in DOMAIN st
         THEN [ r |-> DB_KEYEXIST, st |-> st ]
         ELSE [ r |-> 0, st |-> StorePut(st, k, v) ]

\* DB->del: a store failure, a missing key (an error unless DB_DELETE_ANY), or
\* the binding removed
DbDel(st, k, flags, fault) ==
    IF fault THEN [ r |-> EIO, st |-> st ]
    ELSE IF flags # DB_DELETE_ANY /\ k \notin DOMAIN st
         THEN [ r |-> DB_NOTFOUND, st |-> st ]
         ELSE [ r |-> 0, st |-> StoreDel(st, k) ]

(* -------------------------- ambient transaction ------------------------ *)

\* cc().transaction(): the transaction of the calling context; reaching for it
\* when there is none is fatal
HasTxn == txn = "active"

\* the log of store requests after a step that issued its request or failed
\* before issuing it
Logged(log, p) == IF p.issued THEN Append(log, p.req) ELSE log

(* ------------------------------ insertPair ----------------------------- *)

\* a null BSONObj pointer
NULL == << >>

\* PairBuf with the two memcpy targets exchanged: the pk, then the key
PairBufPkFirst(key, pk) == pk \o SubSeq(key, 1, ObjSize(key))

\* buf: key.objsize() bytes of the key, then pk->objsize() bytes of the pk
\* when there is one
PairBuf(key, pk) ==
    LET buflen == ObjSize(key) + (IF pk # NULL THEN ObjSize(pk) ELSE 0)
    IN  SubSeq(key \o pk, 1, buflen)

\* PutFlags that leaves overwrite out of the test
PutFlagsUniqueOnly(overwrite) == IF Unique THEN DB_NOOVERWRITE ELSE 0

\* the put flags of insertPair
PutFlags(overwrite) == IF Unique /\ ~overwrite THEN DB_NOOVERWRITE ELSE 0

\* PutOutcome with verify(r == 0) ahead of the uassert
PutOutcomeVerifyFirst(r) == IF r # 0 THEN "Fatal" ELSE "Ok"

\* what insertPair makes of the response of put: uassert 16433 on
\* DB_KEYEXIST, then verify(r == 0)
PutOutcome(r) ==
    IF r = DB_KEYEXIST THEN "DuplicateKey"
    ELSE IF r # 0 THEN "Fatal"
    ELSE "Ok"

\* InsertPair handing the store a null transaction when the context has none
InsertPairNullTxn(st, key, pk, val, overwrite, fault) ==
    LET kdbt == PairBuf(key, pk)
        vdbt == SubSeq(val, 1, ObjSize(val))
        flags == PutFlags(overwrite)
        p == DbPut(st, kdbt, vdbt, flags, fault)
    IN  [ st |-> p.st,
          outcome |-> PutOutcome(p.r),
          issued |-> TRUE,
          req |-> [ op |-> "put", key |-> kdbt, val |-> vdbt,
                    flags |-> flags, r |-> p.r ] ]

\* insertPair: the put it issues, the store after it and its outcome. The
\* arguments of put are evaluated first: without a transaction
\* cc().transaction() fails and put is not called.
InsertPair(st, key, pk, val, overwrite, fault) ==
    LET kdbt == PairBuf(key, pk)
        vdbt == SubSeq(val, 1, ObjSize(val))
        flags == PutFlags(overwrite)
        p == IF HasTxn THEN DbPut(st, kdbt, vdbt, flags, fault)
             ELSE [ r |-> 0, st |-> st ]
    IN  [ st |-> p.st,
          outcome |-> IF HasTxn THEN PutOutcome(p.r) ELSE "Fatal",
          issued |-> HasTxn,
          req |-> [ op |-> "put", key |-> kdbt, val |-> vdbt,
                    flags |-> flags, r |-> p.r ] ]

(* -------------------------------- insert ------------------------------- *)

\* MarkMultikey storing the outcome of the test instead of setting the bit
MarkMultikeyAssign(keys, mk) == Len(keys) > 1

\* MarkMultikey with the test of keys.size() off by one
MarkMultikeyOffByOne(keys, mk) == IF Len(keys) > 2 THEN TRUE ELSE mk

\* MarkMultikey setting the bit for every document, whatever keys.size()
MarkMultikeyNoTest(keys, mk) == Len(keys) >= 0

\* the multikey bit after the test of keys.size() and setIndexIsMultikey
MarkMultikey(keys, mk) == IF Len(keys) > 1 THEN TRUE ELSE mk

\* InsertKey with the clustering branch passing BSONObj() as the value
InsertKeyClusteringEmpty(st, ki, d, overwrite, fault) ==
    IF IsIdIndex THEN InsertPair(st, ki, NULL, DocTab[d], overwrite, fault)
    ELSE InsertPair(st, ki, PkOf(d), EmptyObj, overwrite, fault)

\* InsertKey with the id branch passing &primary_key
InsertKeyIdWithPk(st, ki, d, overwrite, fault) ==
    IF IsIdIndex \/ Clustering
    THEN InsertPair(st, ki, PkOf(d), DocTab[d], overwrite, fault)
    ELSE InsertPair(st, ki, PkOf(d), EmptyObj, overwrite, fault)

\* one round of the loop of insert: the pair written for key ki of obj
InsertKey(st, ki, d, overwrite, fault) ==
    IF IsIdIndex THEN InsertPair(st, ki, NULL, DocTab[d], overwrite, fault)
    ELSE IF Clustering THEN InsertPair(st, ki, PkOf(d), DocTab[d], overwrite, fault)
    ELSE InsertPair(st, ki, PkOf(d), EmptyObj, overwrite, fault)

\* InsertLoop going on to the next key after a put that did not end Ok, and
\* reporting the failure after the last key
RECURSIVE InsertLoopKeepGoing(_, _, _, _, _, _, _)
InsertLoopKeepGoing(st, keys, i, d, overwrite, faultAt, log) ==
    IF i > Len(keys)
    THEN [ st |-> st,
           result |-> IF \E j \in 1 .. Len(log) : log[j].r = DB_KEYEXIST
                      THEN "DuplicateKey"
                      ELSE IF \E j \in 1 .. Len(log) : log[j].r # 0
                           THEN "Fatal" ELSE "Ok",
           dbcalls |-> log ]
    ELSE LET p == InsertPair(st, keys[i], IF IsIdIndex THEN NULL ELSE PkOf(d),
                             IF IsIdIndex \/ Clustering THEN DocTab[d] ELSE EmptyObj,
                             overwrite, faultAt = i)
         IN  InsertLoopKeepGoing(p.st, keys, i + 1, d, overwrite, faultAt,
                                 Logged(log, p))

\* InsertLoop trying a put that did not end Ok a second time before giving up
RECURSIVE InsertLoopRetry(_, _, _, _, _, _, _)
InsertLoopRetry(st, keys, i, d, overwrite, faultAt, log) ==
    IF i > Len(keys) THEN [ st |-> st, result |-> "Ok", dbcalls |-> log ]
    ELSE LET p == InsertPair(st, keys[i], IF IsIdIndex THEN NULL ELSE PkOf(d),
                             IF IsIdIndex \/ Clustering THEN DocTab[d] ELSE EmptyObj,
                             overwrite, faultAt = i)
         IN  IF p.outcome = "Ok"
             THEN InsertLoopRetry(p.st, keys, i + 1, d, overwrite, faultAt,
                                  Logged(log, p))
             ELSE [ st |-> p.st, result |-> p.outcome,
                    dbcalls |-> Logged(Logged(log, p), p) ]

\* the loop of insert from key i on; the put numbered faultAt fails in the
\* store. A put that does not end Ok throws, and the loop ends there.
RECURSIVE InsertLoop(_, _, _, _, _, _, _)
InsertLoop(st, keys, i, d, overwrite, faultAt, log) ==
    IF i > Len(keys) THEN [ st |-> st, result |-> "Ok", dbcalls |-> log ]
    ELSE LET p == InsertKey(st, keys[i], d, overwrite, faultAt = i)
         IN  IF p.outcome = "Ok"
             THEN InsertLoop(p.st, keys, i + 1, d, overwrite, faultAt,
                             Logged(log, p))
             ELSE [ st |-> p.st, result |-> p.outcome,
                    dbcalls |-> Logged(log, p) ]

\* insert(obj, primary_key, overwrite), primary_key being the _id of obj.
\* ns points into the temporary string parentNS() returned: when the bytes
\* have been reused (nsResolved false) nsdetails(ns) finds no namespace and
\* d->idxNo dereferences null.
InsertCall(d, overwrite, faultAt, nsResolved) ==
    LET keys == GetKeysFromObject(d)
        run == InsertLoop(store, keys, 1, d, overwrite, faultAt, << >>)
    IN  /\ result # "Crash"
        /\ faultAt \in 0 .. Len(keys)
        /\ nsResolved \in (IF Len(keys) > 1 THEN BOOLEAN ELSE { TRUE })
        /\ call' = [ op |-> "insert", obj |-> d, overwrite |-> overwrite ]
        /\ prevStore' = store
        /\ IF ~nsResolved
           THEN /\ result' = "Crash"
                /\ dbcalls' = << >>
                /\ UNCHANGED << store, multikey >>
           ELSE /\ multikey' = MarkMultikey(keys, multikey)
                /\ store' = run.st
                /\ result' = run.result
                /\ dbcalls' = run.dbcalls

Insert(d, overwrite, faultAt, nsResolved) ==
    /\ InsertCall(d, overwrite, faultAt, nsResolved)
    /\ UNCHANGED << info, threads, ncalls, envVars >>

(* ----------------------------- deleteObject ---------------------------- *)

\* DelFlags without DB_DELETE_ANY
DelFlagsNone == DB_DELETE_ANY - DB_DELETE_ANY

\* the del flags of deleteObject
DelFlags == DB_DELETE_ANY

\* DeleteBuf that never appends the pk
DeleteBufKeyOnly(key, pk) == SubSeq(key, 1, ObjSize(key))

\* buf of deleteObject: the key, then the pk unless this is the id index
DeleteBuf(key, pk) ==
    LET buflen == ObjSize(key) + (IF IsIdIndex THEN 0 ELSE ObjSize(pk))
    IN  SubSeq(key \o pk, 1, buflen)

\* what deleteObject makes of the response of del: verify(r == 0)
DelOutcome(r) == IF r # 0 THEN "Fatal" ELSE "Ok"

\* one round of the loop of deleteObject; without a transaction
\* cc().transaction() fails and del is not called
DeleteKey(st, ki, pk, fault) ==
    LET kdbt == DeleteBuf(ki, pk)
        p == IF HasTxn THEN DbDel(st, kdbt, DelFlags, fault)
             ELSE [ r |-> 0, st |-> st ]
    IN  [ st |-> p.st,
          outcome |-> IF HasTxn THEN DelOutcome(p.r) ELSE "Fatal",
          issued |-> HasTxn,
          req |-> [ op |-> "del", key |-> kdbt, val |-> NULL,
                    flags |-> DelFlags, r |-> p.r ] ]

RECURSIVE DeleteLoop(_, _, _, _, _, _)
DeleteLoop(st, keys, i, pk, faultAt, log) ==
    IF i > Len(keys) THEN [ st |-> st, result |-> "Ok", dbcalls |-> log ]
    ELSE LET p == DeleteKey(st, keys[i], pk, faultAt = i)
         IN  IF p.outcome = "Ok"
             THEN DeleteLoop(p.st, keys, i + 1, pk, faultAt, Logged(log, p))
             ELSE [ st |-> p.st, result |-> p.outcome,
                    dbcalls |-> Logged(log, p) ]

\* deleteObject(pk, obj), pk being the _id of obj
DeleteObjectCall(d, faultAt) ==
    LET keys == GetKeysFromObject(d)
        run == DeleteLoop(store, keys, 1, PkOf(d), faultAt, << >>)
    IN  /\ result # "Crash"
        /\ faultAt \in 0 .. Len(keys)
        /\ call' = [ op |-> "deleteObject", obj |-> d, overwrite |-> FALSE ]
        /\ prevStore' = store
        /\ store' = run.st
        /\ result' = run.result
        /\ dbcalls' = run.dbcalls
        /\ UNCHANGED multikey

DeleteObject(d, faultAt) ==
    /\ DeleteObjectCall(d, faultAt)
    /\ UNCHANGED << info, threads, ncalls, envVars >>

(* -------------------------------- cursor ------------------------------- *)

\* DB->cursor: a handle (0) or a store failure
DbCursor(fault) == IF fault THEN EIO ELSE 0

\* cursor(): cc().transaction() first, fatal without a transaction; then
\* verify(r == 0). The dictionary is not written.
CursorCall(fault) ==
    LET r == DbCursor(fault)
    IN  /\ result # "Crash"
        /\ call' = [ op |-> "cursor", obj |-> call.obj, overwrite |-> FALSE ]
        /\ prevStore' = store
        /\ IF ~HasTxn
           THEN /\ result' = "Fatal"
                /\ dbcalls' = << >>
           ELSE /\ result' = (IF r # 0 THEN "Fatal" ELSE "Ok")
                /\ dbcalls' = << [ op |-> "cursor", key |-> NULL, val |-> NULL,
                                   flags |-> 0, r |-> r ] >>
        /\ UNCHANGED << store, multikey >>

Cursor(fault) ==
    /\ CursorCall(fault)
    /\ UNCHANGED << info, threads, ncalls, envVars >>

(* ---------------------------- specification ---------------------------- *)

\* the most keys one document yields
MaxKeys == Cardinality(Vals)

EmptyStore == [ x \in {} |-> NULL ]

Threads == 1 .. NumThreads

\* a thread outside the index layer; at is the key the loop of a call is at
IdleThread ==
    [ pc |-> "idle", obj |-> CHOOSE d \in Docs : TRUE, overwrite |-> FALSE, at |-> 0 ]

Init ==
    /\ info \in IndexInfos
    /\ store = EmptyStore
    /\ multikey = FALSE
    /\ call = [ op |-> "open", obj |-> CHOOSE d \in Docs : TRUE, overwrite |-> FALSE ]
    /\ result = "Ok"
    /\ dbcalls = << >>
    /\ prevStore = EmptyStore
    /\ threads = [ t \in Threads |-> IdleThread ]
    /\ ncalls = 0
    /\ txn = "active"
    /\ committed = EmptyStore
    /\ dict = TRUE
    /\ handle = "open"
    /\ catalog = 1
    /\ meta = TRUE
    /\ cache = 0
    /\ drop = "none"
    /\ ispec = [ keyPattern |-> NULL, init |-> FALSE ]
    /\ lock = 0
    /\ refs = [ t \in Threads |-> 0 ]

Next ==
    \/ \E d \in Docs, overwrite \in BOOLEAN, faultAt \in 0 .. MaxKeys, ns \in BOOLEAN :
          Insert(d, overwrite, faultAt, ns)
    \/ \E d \in Docs, faultAt \in 0 .. MaxKeys : DeleteObject(d, faultAt)
    \/ \E fault \in BOOLEAN : Cursor(fault)

Spec == Init /\ [][Next]_vars

(* ----------------------- interleaved specification --------------------- *)

\* Concurrent insert calls and readers, one store request at a time. A
\* thread in insert is at "mark" after getKeysFromObject and at "put" in the
\* loop.

ThreadKeys(t) == GetKeysFromObject(threads[t].obj)

Running == result # "Crash"

\* insert: getKeysFromObject
TInsertKeys(t, d, overwrite) ==
    /\ Running /\ ncalls < MaxCalls
    /\ threads[t].pc = "idle"
    /\ threads' = [ threads EXCEPT ![t] =
                      [ pc |-> "mark", obj |-> d, overwrite |-> overwrite, at |-> 1 ] ]
    /\ ncalls' = ncalls + 1
    /\ UNCHANGED << info, store, multikey, call, result, dbcalls, prevStore,
                    envVars >>

\* insert: the test of keys.size() and setIndexIsMultikey (or the null
\* dereference when ns no longer names the namespace)
TInsertMark(t, nsResolved) ==
    /\ Running
    /\ threads[t].pc = "mark"
    /\ nsResolved \in (IF Len(ThreadKeys(t)) > 1 THEN BOOLEAN ELSE { TRUE })
    /\ IF ~nsResolved
       THEN /\ result' = "Crash"
            /\ UNCHANGED << multikey, threads >>
       ELSE /\ multikey' = MarkMultikey(ThreadKeys(t), multikey)
            /\ threads' = [ threads EXCEPT ![t].pc = "put" ]
            /\ UNCHANGED result
    /\ UNCHANGED << info, store, call, dbcalls, prevStore, ncalls,
                    envVars >>

\* insert: one round of the loop; a put that does not end Ok throws
TInsertPut(t, fault) ==
    /\ Running
    /\ threads[t].pc = "put"
    /\ threads[t].at <= Len(ThreadKeys(t))
    /\ LET p == InsertKey(store, ThreadKeys(t)[threads[t].at], threads[t].obj,
                          threads[t].overwrite, fault)
       IN  /\ store' = p.st
           /\ threads' = [ threads EXCEPT ![t] =
                             IF p.outcome = "Ok"
                             THEN [ threads[t] EXCEPT !.at = threads[t].at + 1 ]
                             ELSE IdleThread ]
    /\ UNCHANGED << info, multikey, call, result, dbcalls, prevStore, ncalls,
                    envVars >>

\* insert: the loop is over
TInsertReturn(t) ==
    /\ Running
    /\ threads[t].pc = "put"
    /\ threads[t].at > Len(ThreadKeys(t))
    /\ threads' = [ threads EXCEPT ![t] = IdleThread ]
    /\ UNCHANGED << info, store, multikey, call, result, dbcalls, prevStore, ncalls,
                    envVars >>

\* cursor(): a reader opens a cursor on the dictionary as it is
TCursor(t) ==
    /\ Running /\ ncalls < MaxCalls
    /\ threads[t].pc = "idle"
    /\ ncalls' = ncalls + 1
    /\ UNCHANGED << info, store, multikey, call, result, dbcalls, prevStore, threads,
                    envVars >>

NextConc ==
    \E t \in Threads :
        \/ \E d \in Docs, overwrite \in BOOLEAN : TInsertKeys(t, d, overwrite)
        \/ \E ns \in BOOLEAN : TInsertMark(t, ns)
        \/ \E fault \in BOOLEAN : TInsertPut(t, fault)
        \/ TInsertReturn(t)
        \/ TCursor(t)

SpecConc == Init /\ [][NextConc]_vars

(* ----------------------- transaction specification --------------------- *)

\* The caller's context begins, commits and aborts transactions around its
\* calls of the index layer; it may also call with no transaction.

\* a transaction begins: it sees the dictionary as committed
TxBegin ==
    /\ result # "Crash"
    /\ txn # "active"
    /\ txn' = "active"
    /\ UNCHANGED << info, store, multikey, call, result, dbcalls, prevStore,
                    threads, ncalls, committed, lifeVars, cacheVars >>

\* commit: what the transaction wrote becomes the committed dictionary
TxCommit ==
    /\ result # "Crash"
    /\ txn = "active"
    /\ txn' = "committed"
    /\ committed' = store
    /\ UNCHANGED << info, store, multikey, call, result, dbcalls, prevStore,
                    threads, ncalls, lifeVars, cacheVars >>

\* abort: the dictionary is as committed again
TxAbort ==
    /\ result # "Crash"
    /\ txn = "active"
    /\ txn' = "aborted"
    /\ store' = committed
    /\ UNCHANGED << info, multikey, call, result, dbcalls, prevStore, threads,
                    ncalls, committed, lifeVars, cacheVars >>

TxInsert(d, overwrite, faultAt, nsResolved) ==
    /\ ncalls < MaxCalls
    /\ InsertCall(d, overwrite, faultAt, nsResolved)
    /\ ncalls' = ncalls + 1
    /\ UNCHANGED << info, threads, envVars >>

TxDeleteObject(d, faultAt) ==
    /\ ncalls < MaxCalls
    /\ DeleteObjectCall(d, faultAt)
    /\ ncalls' = ncalls + 1
    /\ UNCHANGED << info, threads, envVars >>

TxCursor(fault) ==
    /\ ncalls < MaxCalls
    /\ CursorCall(fault)
    /\ ncalls' = ncalls + 1
    /\ UNCHANGED << info, threads, envVars >>

\* the requests the store may fail: none is issued without a transaction
TxFaults == IF HasTxn THEN 0 .. MaxKeys ELSE { 0 }

NextTxn ==
    \/ TxBegin
    \/ TxCommit
    \/ TxAbort
    \/ \E d \in Docs, overwrite \in BOOLEAN, faultAt \in TxFaults, ns \in BOOLEAN :
          TxInsert(d, overwrite, faultAt, ns)
    \/ \E d \in Docs, faultAt \in TxFaults : TxDeleteObject(d, faultAt)
    \/ \E fault \in BOOLEAN : TxCursor(fault)

SpecTxn == Init /\ [][NextTxn]_vars

(* ------------------------ lifecycle specification ---------------------- *)

\* The index object is closed and constructed again over the dictionary that
\* Init created.

\* storage::db_open: a store failure, a missing dictionary that may not be
\* created, or the dictionary opened (and created when it was missing)
DbOpen(exists, may_create, fault) ==
    IF fault THEN [ r |-> EIO, exists |-> exists ]
    ELSE IF ~exists /\ ~may_create THEN [ r |-> ENOENT, exists |-> exists ]
    ELSE [ r |-> 0, exists |-> TRUE ]

\* the registrations after the constructor: addNewNamespaceToCatalog whenever
\* may_create is set
Register(n, may_create, existed) == IF may_create THEN n + 1 ELSE n

\* IndexDetails(info, may_create): db_open, verify(r == 0), then the
\* registration
Open(may_create, fault) ==
    LET o == DbOpen(dict, may_create, fault)
    IN  /\ drop # "aborted"
        /\ handle = "closed"
        /\ ncalls < MaxCalls
        /\ ncalls' = ncalls + 1
        /\ call' = [ op |-> "open", obj |-> call.obj, overwrite |-> may_create ]
        /\ dict' = o.exists
        /\ IF o.r # 0
           THEN /\ result' = "Fatal"
                /\ UNCHANGED << handle, catalog >>
           ELSE /\ result' = "Ok"
                /\ handle' = "open"
                /\ catalog' = Register(catalog, may_create, dict)
        /\ UNCHANGED << info, store, multikey, dbcalls, prevStore, threads,
                        txnVars, cacheVars, meta, cache, drop, ispec >>

\* ~IndexDetails: db_close; the dictionary stays
Close ==
    /\ drop = "none"
    /\ handle = "open"
    /\ handle' = "closed"
    /\ call' = [ op |-> "close", obj |-> call.obj, overwrite |-> FALSE ]
    /\ result' = "Ok"
    /\ UNCHANGED << info, store, multikey, dbcalls, prevStore, threads, ncalls,
                    txnVars, cacheVars, dict, catalog, meta, cache, drop, ispec >>

\* kill_idx, first step: deletedIndex() empties the spec cache of the parent
\* namespace, under the lock of the cache
KillInvalidate ==
    /\ drop = "none" /\ result # "Crash"
    /\ handle = "open"
    /\ lock = 0
    /\ drop' = "invalidated"
    /\ cache' = 0
    /\ call' = [ op |-> "kill_idx", obj |-> call.obj, overwrite |-> FALSE ]
    /\ result' = "Running"
    /\ UNCHANGED << info, store, multikey, dbcalls, prevStore, threads, ncalls,
                    txnVars, cacheVars, dict, handle, catalog, meta, ispec >>

\* kill_idx, second step: ::abort() ends the process. dropIndex and dropNS
\* are commented out and removeFromSysIndexes is under #if 0: the dictionary
\* and the system.indexes entry stay.
KillAbort ==
    /\ drop = "invalidated" /\ result # "Crash"
    /\ drop' = "aborted"
    /\ result' = "Aborted"
    /\ UNCHANGED << info, store, multikey, call, dbcalls, prevStore, threads,
                    ncalls, txnVars, cacheVars, dict, handle, catalog, meta, cache, ispec >>

\* the process starts again after ::abort(): nothing of its memory is left,
\* the open transaction is rolled back, what is on disk stays
Restart ==
    /\ drop = "aborted"
    /\ drop' = "none"
    /\ handle' = "closed"
    /\ cache' = 0
    /\ txn' = (IF txn = "active" THEN "aborted" ELSE txn)
    /\ store' = committed
    /\ call' = [ op |-> "restart", obj |-> call.obj, overwrite |-> FALSE ]
    /\ result' = "Ok"
    /\ UNCHANGED << info, multikey, dbcalls, prevStore, threads, ncalls,
                    committed, dict, catalog, meta, ispec, cacheVars >>

\* the key patterns an index definition may carry: {}, {a: 1} and {_id: 1}
KeyPatterns ==
    { EmptyObj, BSONObjOf(ElemInt(NameA, 1)), BSONObjOf(ElemInt(NameId, 1)) }

\* the test of IndexSpec::reset on the key pattern: verify(false) when its
\* objsize() is 0
ResetOutcome(keyPattern) == IF ObjSize(keyPattern) = 0 THEN "Fatal" ELSE "Ok"

\* IndexSpec::reset(info) for a definition whose "key" is keyPattern: the
\* pattern is stored, tested, and _init() runs when the test let it through
ResetSpec(keyPattern) ==
    /\ drop = "none"
    /\ ncalls < MaxCalls
    /\ ncalls' = ncalls + 1
    /\ call' = [ op |-> "reset", obj |-> call.obj, overwrite |-> FALSE ]
    /\ result' = ResetOutcome(keyPattern)
    /\ ispec' = [ keyPattern |-> keyPattern,
                  init |-> ResetOutcome(keyPattern) = "Ok" ]
    /\ UNCHANGED << info, store, multikey, dbcalls, prevStore, threads, txnVars, cacheVars,
                    dict, handle, catalog, meta, cache, drop >>

NextLife ==
    \/ \E keyPattern \in KeyPatterns : ResetSpec(keyPattern)
    \/ \E may_create \in BOOLEAN, fault \in BOOLEAN : Open(may_create, fault)
    \/ Close
    \/ KillInvalidate
    \/ KillAbort
    \/ Restart

SpecLife == Init /\ [][NextLife]_vars

(* ------------------------ spec cache specification --------------------- *)

\* Threads in insert and deleteObject go through getSpec (at "lookup" with
\* _qcMutex held, at "extract" with the reference getSpec returned) and then
\* issue their store requests (at "io"); threads in cursor go to "io"
\* directly. Another thread may run kill_idx meanwhile.

\* the IndexSpec getIndexSpec returns: the cached one, or on a miss the one
\* it builds and caches now
LookupSpec == IF cache # 0 THEN cache ELSE IF drop = "none" THEN 1 ELSE 2

\* getSpec, entered from getKeysFromObject: the scoped_lock is taken and the
\* cache is looked up
TGetSpec(t) ==
    /\ drop # "aborted" /\ result # "Crash" /\ ncalls < MaxCalls
    /\ threads[t].pc = "idle"
    /\ lock = 0
    /\ lock' = t
    /\ cache' = LookupSpec
    /\ refs' = [ refs EXCEPT ![t] = LookupSpec ]
    /\ threads' = [ threads EXCEPT ![t].pc = "lookup" ]
    /\ ncalls' = ncalls + 1
    /\ UNCHANGED << info, store, multikey, call, result, dbcalls, prevStore,
                    txnVars, dict, handle, catalog, meta, drop, ispec >>

\* getSpec returns the reference: the scoped_lock goes out of scope
TGetSpecReturn(t) ==
    /\ drop # "aborted" /\ result # "Crash"
    /\ threads[t].pc = "lookup"
    /\ lock' = 0
    /\ threads' = [ threads EXCEPT ![t].pc = "extract" ]
    /\ UNCHANGED << info, store, multikey, call, result, dbcalls, prevStore,
                    ncalls, txnVars, lifeVars, refs >>

\* getKeys through the reference. When the IndexSpec it names is cached no
\* more the object is destroyed: the read may still find its bytes or bring
\* the process down.
TGetKeys(t, intact) ==
    /\ drop # "aborted" /\ result # "Crash"
    /\ threads[t].pc = "extract"
    /\ intact \in (IF refs[t] = cache THEN { TRUE } ELSE BOOLEAN)
    /\ IF intact
       THEN /\ threads' = [ threads EXCEPT ![t].pc = "io" ]
            /\ UNCHANGED result
       ELSE /\ result' = "Crash"
            /\ UNCHANGED threads
    /\ UNCHANGED << info, store, multikey, call, dbcalls, prevStore, ncalls,
                    txnVars, lifeVars, cacheVars >>

\* cursor(): no getSpec, the store request at once
TCursorIo(t) ==
    /\ drop # "aborted" /\ result # "Crash" /\ ncalls < MaxCalls
    /\ threads[t].pc = "idle"
    /\ threads' = [ threads EXCEPT ![t].pc = "io" ]
    /\ ncalls' = ncalls + 1
    /\ UNCHANGED << info, store, multikey, call, result, dbcalls, prevStore,
                    txnVars, lifeVars, cacheVars >>

\* the store requests of the call are done and the call returns
TIoReturn(t) ==
    /\ drop # "aborted" /\ result # "Crash"
    /\ threads[t].pc = "io"
    /\ threads' = [ threads EXCEPT ![t].pc = "idle" ]
    /\ refs' = [ refs EXCEPT ![t] = 0 ]
    /\ UNCHANGED << info, store, multikey, call, result, dbcalls, prevStore,
                    ncalls, txnVars, lifeVars, lock >>

NextCache ==
    \/ \E t \in Threads :
          \/ TGetSpec(t)
          \/ TGetSpecReturn(t)
          \/ \E intact \in BOOLEAN : TGetKeys(t, intact)
          \/ TCursorIo(t)
          \/ TIoReturn(t)
    \/ KillInvalidate
    \/ KillAbort

SpecCache == Init /\ [][NextCache]_vars

(* ------------------------ reading the dictionary ----------------------- *)

\* the two objects of a physical key: the first ends where its own size says
DecodeKey(b) ==
    [ key |-> SubSeq(b, 1, ObjSize(b)), pk |-> SubSeq(b, ObjSize(b) + 1, Len(b)) ]

\* the number in a key object: size (4), type (1), empty name (1), value (4)
KeyValue(k) == ReadInt32LE(k, 7)

\* memcmp order of two byte strings, the shorter first when one is a prefix
BytesLess(x, y) ==
    \E i \in 1 .. (Len(x) + 1) :
        /\ i <= Len(y)
        /\ \A j \in 1 .. (i - 1) : x[j] = y[j]
        /\ (i = Len(x) + 1 \/ x[i] < y[i])

\* the order of a comparator that reads the key object, then the pk object
DecodedLess(x, y) ==
    LET a == DecodeKey(x)
        b == DecodeKey(y)
    IN  \/ KeyValue(a.key) < KeyValue(b.key)
        \/ /\ KeyValue(a.key) = KeyValue(b.key)
           /\ a.pk # NULL /\ b.pk # NULL
           /\ KeyValue(a.pk) < KeyValue(b.pk)

(* ------------------- what the specification prescribes ----------------- *)

\* the physical key of extracted key k of document d: k alone on the id
\* index, k followed by the primary key otherwise
ExpKey(k, d) == IF IsIdIndex THEN k ELSE k \o KeyObj(d.id)

\* the physical value: the document on the id index and on a clustering
\* index, the empty object otherwise
ExpVal(d) == IF IsIdIndex \/ Clustering THEN DocObj(d) ELSE EmptyObj

\* the extracted keys of the last call's document, and their number
CallKeys == GetKeysFromObject(call.obj)
NKeys == Len(CallKeys)

\* st with the entries prescribed for the first n extracted keys of d
RECURSIVE WithEntries(_, _, _, _)
WithEntries(st, keys, d, n) ==
    IF n = 0 THEN st
    ELSE StorePut(WithEntries(st, keys, d, n - 1), ExpKey(keys[n], d), ExpVal(d))

InsertReturned == call.op = "insert" /\ result # "Crash"
StoreFailed == \E i \in 1 .. Len(dbcalls) : dbcalls[i].r = EIO

(* -------------------------------- claims ------------------------------- *)

\* the primary key an entry belongs to: the pk object of its key, and on the
\* id index the key itself
EntryPk(e) == IF IsIdIndex THEN e ELSE DecodeKey(e).pk

\* an entry of another primary key under one of the call's extracted keys
\* was in the dictionary when the call started
OtherPkHoldsKey ==
    \E e \in DOMAIN prevStore, i \in 1 .. NKeys :
        /\ DecodeKey(e).key = CallKeys[i]
        /\ EntryPk(e) # PkOf(call.obj)

\* C1: on a unique index, an insert with overwrite=false of a document one
\* of whose extracted keys is held by an entry of a different primary key
\* returns DuplicateKey (whenever the store answers its puts).
C1_DuplicateRejected ==
    (InsertReturned /\ Unique /\ ~call.overwrite /\ ~StoreFailed /\ OtherPkHoldsKey)
        => result = "DuplicateKey"

\* C2 as stated: an insert that returns DuplicateKey leaves the dictionary
\* exactly as it was before the call.
C2_DuplicateKeyLeavesStore ==
    (call.op = "insert" /\ result = "DuplicateKey") => store = prevStore

\* C2 as amended: an insert that returns DuplicateKey at its n-th key leaves
\* every entry that was there unchanged and has added exactly the entries of
\* the n-1 keys before it; the dictionary is as before when n = 1.
C2_DuplicateKeyLeavesPrefix ==
    (call.op = "insert" /\ result = "DuplicateKey") =>
        \E n \in 1 .. NKeys :
            /\ ExpKey(CallKeys[n], call.obj) \in DOMAIN prevStore
            /\ store = WithEntries(prevStore, CallKeys, call.obj, n - 1)
            /\ \A e \in DOMAIN prevStore : e \in DOMAIN store /\ store[e] = prevStore[e]
            /\ (n = 1 => store = prevStore)

\* a multi-key insert refused at its second key, the first key's entry kept
C2_Witness ==
    /\ call.op = "insert" /\ result = "DuplicateKey"
    /\ Len(dbcalls) = 2
    /\ ExpKey(CallKeys[1], call.obj) \in (DOMAIN store) \ (DOMAIN prevStore)

\* the physical key insert writes for extracted key ki of document d
InsertedKey(ki, d) == InsertKey(EmptyStore, ki, d, TRUE, FALSE).req.key

\* C3: after deleteObject(pk, D) has returned, no physical key that
\* insert(D, pk) writes is in the dictionary, on every kind of index: each
\* del is issued on the key insert builds for the same extracted key.
C3_DeleteRemovesInserted ==
    (call.op = "deleteObject" /\ result = "Ok") =>
        /\ Len(dbcalls) = NKeys
        /\ \A i \in 1 .. NKeys :
              /\ dbcalls[i].key = InsertedKey(CallKeys[i], call.obj)
              /\ InsertedKey(CallKeys[i], call.obj) \notin DOMAIN store

\* deleteObject removed the entries an insert of a two-key document wrote
C3_Witness ==
    /\ call.op = "deleteObject" /\ result = "Ok" /\ NKeys = 2
    /\ \A i \in 1 .. NKeys :
          /\ ExpKey(CallKeys[i], call.obj) \in DOMAIN prevStore
          /\ prevStore[ExpKey(CallKeys[i], call.obj)] = ExpVal(call.obj)
          /\ ExpKey(CallKeys[i], call.obj) \notin DOMAIN store

NoKeyPresent ==
    \A i \in 1 .. NKeys : ExpKey(CallKeys[i], call.obj) \notin DOMAIN prevStore

\* C4: deleteObject of a document none of whose physical keys is present
\* returns Ok and leaves the dictionary as it was (whenever the store answers
\* its dels); deleteObject is fatal exactly when a del response is neither
\* success nor key-not-present.
C4_DeleteAbsentIsOk ==
    call.op = "deleteObject" =>
        /\ (NoKeyPresent /\ ~StoreFailed) => (result = "Ok" /\ store = prevStore)
        /\ result = "Fatal" <=> StoreFailed
        /\ result \in { "Ok", "Fatal" }

\* a deleteObject that found none of its two keys and returned Ok
C4_Witness ==
    /\ call.op = "deleteObject" /\ result = "Ok" /\ NKeys = 2
    /\ NoKeyPresent /\ store = prevStore
    /\ Len(dbcalls) = 2

\* C5: the multikey flag is never cleared, and it is true once an insert
\* that extracted more than one key has gone on to its puts.
C5_MultikeyMonotonic ==
    /\ [][multikey => multikey']_vars
    /\ []((InsertReturned /\ NKeys > 1) => multikey)

\* the flag still set after the multi-valued documents are gone and a
\* single-key insert has run
C5_Witness ==
    /\ multikey
    /\ call.op = "insert" /\ NKeys = 1 /\ result = "Ok"
    /\ Cardinality(DOMAIN store) = 1
    /\ Cardinality(DOMAIN prevStore) = 0

\* C7: after a successful insert of a document with exactly one extracted
\* key k, the dictionary holds an entry whose key object is k; its pk object
\* is the primary key on a non-id index, and its value is the document on
\* the id index and on a clustering index.
C7_RoundTrip ==
    (call.op = "insert" /\ result = "Ok" /\ NKeys = 1) =>
        \E e \in DOMAIN store :
            /\ DecodeKey(e).key = CallKeys[1]
            /\ ~IsIdIndex => DecodeKey(e).pk = KeyObj(call.obj.id)
            /\ (IsIdIndex \/ Clustering) => store[e] = DocObj(call.obj)

\* a single-key insert on a clustering index next to another document's
\* entry under the same extracted key
C7_Witness ==
    /\ call.op = "insert" /\ result = "Ok" /\ NKeys = 1 /\ Clustering
    /\ \E e \in DOMAIN prevStore : DecodeKey(e).key = CallKeys[1]
    /\ \E e \in DOMAIN store : store[e] = DocObj(call.obj)

\* C8: a successful insert issues exactly one put per distinct extracted
\* key, on the key and with the value prescribed for the kind of the index,
\* and the entry is in the dictionary afterwards; on the id index every key
\* is one object (no pk follows it) and every value is a document.
C8_EntryShape ==
    /\ (call.op = "insert" /\ result = "Ok") =>
          /\ Len(dbcalls) = Cardinality(GetKeys(call.obj))
          /\ \A i \in 1 .. Len(dbcalls) :
                /\ dbcalls[i].op = "put"
                /\ dbcalls[i].key = ExpKey(CallKeys[i], call.obj)
                /\ dbcalls[i].val = ExpVal(call.obj)
                /\ dbcalls[i].key \in DOMAIN store
                /\ store[dbcalls[i].key] = ExpVal(call.obj)
                /\ \A j \in 1 .. Len(dbcalls) : dbcalls[i].key = dbcalls[j].key => i = j
    /\ IsIdIndex =>
          \A e \in DOMAIN store :
              /\ Len(e) = ObjSize(e)
              /\ \E d \in Docs : store[e] = DocObj(d) /\ e = KeyObj(d.id)

\* an ordinary index after insert of a document with two distinct values:
\* two entries, the empty object as value, the pk in each key
C8_Witness ==
    /\ call.op = "insert" /\ result = "Ok" /\ info.kind = "ordinary"
    /\ Len(dbcalls) = 2 /\ multikey
    /\ \A i \in 1 .. 2 :
          /\ store[dbcalls[i].key] = EmptyObj
          /\ DecodeKey(dbcalls[i].key).pk = KeyObj(call.obj.id)

\* the puts of one call, of keys i < j in the order of the extracted keys
OrderedPuts ==
    { p \in (1 .. Len(dbcalls)) \X (1 .. Len(dbcalls)) :
        p[1] < p[2] /\ dbcalls[p[1]].r = 0 /\ dbcalls[p[2]].r = 0 }

\* C9 as stated: the physical keys one insert writes for extracted keys
\* k1 < k2 (the primary key being the same) are in byte order.
C9_ByteOrder ==
    call.op = "insert" =>
        \A p \in OrderedPuts : BytesLess(dbcalls[p[1]].key, dbcalls[p[2]].key)

\* C9 as amended: each physical key starts with its extracted key, which
\* its own size delimits, and the physical keys for k1 < k2 are in the order
\* of a comparator that reads the key object and then the pk object.
C9_DecodedOrder ==
    call.op = "insert" =>
        /\ \A i \in 1 .. Len(dbcalls) : DecodeKey(dbcalls[i].key).key = CallKeys[i]
        /\ \A p \in OrderedPuts :
              /\ KeyValue(CallKeys[p[1]]) < KeyValue(CallKeys[p[2]])
              /\ DecodedLess(dbcalls[p[1]].key, dbcalls[p[2]].key)
              /\ ~DecodedLess(dbcalls[p[2]].key, dbcalls[p[1]].key)

\* the keys for 1 and 256 written by one insert: decoded order, not byte order
C9_Witness ==
    /\ call.op = "insert" /\ result = "Ok" /\ Len(dbcalls) = 2
    /\ KeyValue(CallKeys[1]) < KeyValue(CallKeys[2])
    /\ DecodedLess(dbcalls[1].key, dbcalls[2].key)
    /\ BytesLess(dbcalls[2].key, dbcalls[1].key)

\* C10: insert ends Ok exactly when every put answered 0, DuplicateKey
\* exactly when a put answered DB_KEYEXIST, Fatal exactly when a put answered
\* anything else; the put that did not answer 0 is the last one issued.
C10_PutOutcome ==
    InsertReturned =>
        /\ result \in { "Ok", "DuplicateKey", "Fatal" }
        /\ result = "Ok" <=> \A i \in 1 .. Len(dbcalls) : dbcalls[i].r = 0
        /\ result = "DuplicateKey" <=>
              \E i \in 1 .. Len(dbcalls) : dbcalls[i].r = DB_KEYEXIST
        /\ result = "Fatal" <=>
              \E i \in 1 .. Len(dbcalls) : dbcalls[i].r \notin { 0, DB_KEYEXIST }
        /\ \A i \in 1 .. (Len(dbcalls) - 1) : dbcalls[i].r = 0
        /\ result = "Ok" => Len(dbcalls) = NKeys

\* an insert whose second put the store refused as a duplicate
C10_Witness ==
    /\ call.op = "insert" /\ result = "DuplicateKey"
    /\ Len(dbcalls) = 2 /\ dbcalls[1].r = 0 /\ dbcalls[2].r = DB_KEYEXIST

\* C6: a thread is in the loop of puts of a document with more than one
\* extracted key only with the multikey flag already set, and two entries
\* that hold the same document (id and clustering index) are in the
\* dictionary only with the flag set.
C6_FlagBeforeEntries ==
    /\ \A t \in Threads :
          (threads[t].pc = "put" /\ Len(ThreadKeys(t)) > 1) => multikey
    /\ (IsIdIndex \/ Clustering) =>
          \A e1, e2 \in DOMAIN store :
              (e1 # e2 /\ store[e1] = store[e2]) => multikey

\* one thread between the two puts of a two-key document, its first entry
\* in the dictionary, while another thread is in insert as well
C6_Witness ==
    \E t, u \in Threads :
        /\ t # u
        /\ threads[t].pc = "put" /\ Len(ThreadKeys(t)) = 2 /\ threads[t].at = 2
        /\ ExpKey(ThreadKeys(t)[1], threads[t].obj) \in DOMAIN store
        /\ ExpKey(ThreadKeys(t)[2], threads[t].obj) \notin DOMAIN store
        /\ threads[u].pc \in { "mark", "put" }
        /\ multikey


\* a step of SpecTxn that is a call of the index layer
IndexCallStep == ncalls' # ncalls

\* C11 as stated: insert, deleteObject and cursor called with no active
\* ambient transaction fail (fatally, or by the crash of the process) and
\* issue no store request.
C11_NoTxnFails ==
    [][(IndexCallStep /\ ~HasTxn) =>
          /\ result' \in { "Fatal", "Crash" }
          /\ dbcalls' = << >>
          /\ store' = store]_vars

\* C11, amended: called with no active ambient transaction, cursor and every
\* insert and deleteObject of a document with at least one extracted key fail
\* without issuing a store request and leave the dictionary as it was; an
\* insert or deleteObject of a document with no extracted key never reaches
\* for the transaction and returns Ok, also without a store request.
C11_NoTxnNoRequest ==
    [][(IndexCallStep /\ ~HasTxn) =>
          /\ dbcalls' = << >>
          /\ store' = store
          /\ result' = IF call'.op # "cursor" /\ GetKeysFromObject(call'.obj) = << >>
                       THEN "Ok"
                       ELSE IF result' = "Crash" THEN "Crash" ELSE "Fatal"]_vars

\* an insert that failed before its first put: the context had no transaction
C11_Witness ==
    /\ ~HasTxn
    /\ call.op = "insert" /\ NKeys > 0
    /\ result = "Fatal" /\ dbcalls = << >>

\* a step that is the constructor opening the index
OpenStep == ncalls' # ncalls /\ call'.op = "open"

\* C12: open registers the index namespace with the catalog only when it
\* succeeded and created the dictionary; opening an existing dictionary with
\* createIfMissing adds no registration, and a failed open registers nothing.
C12_RegisterOnlyOnCreate ==
    [][OpenStep =>
          catalog' = IF result' = "Ok" /\ ~dict THEN catalog + 1 ELSE catalog]_vars

\* C13: drop invalidates the cached spec, deletes the dictionary and removes
\* the metadata entry, in this order: the metadata entry is there as long as
\* the dictionary is, and once the cache is invalidated drop goes on to
\* delete the dictionary and the entry instead of ending the process.
C13_DropOrder ==
    /\ dict => meta
    /\ drop # "none" => meta
    /\ drop # "aborted"

\* C14: building an IndexSpec from a definition whose key pattern is empty
\* fails fatally and never reaches _init(); from a non-empty key pattern it
\* succeeds.
C14_EmptyPatternFatal ==
    call.op = "reset" =>
        IF ispec.keyPattern = EmptyObj
        THEN result = "Fatal" /\ ~ispec.init
        ELSE result = "Ok" /\ ispec.init

\* an insert that failed at a put it issued
InsertFailedAtPut ==
    /\ call.op = "insert"
    /\ result \in { "DuplicateKey", "Fatal" }
    /\ dbcalls # << >>

\* C15: an insert that fails at its i-th put has issued exactly the puts of
\* the first i extracted keys, once each and in order, all but the last
\* answered 0: no further put and no retry. The puts were made in the
\* caller's transaction: after its abort the dictionary is the committed one
\* again, so no entry the call wrote is left, and the committed dictionary
\* changes by a commit only.
C15_FailedInsertStops ==
    /\ [](InsertFailedAtPut =>
            /\ Len(dbcalls) <= NKeys
            /\ \A j \in 1 .. Len(dbcalls) :
                  /\ dbcalls[j].op = "put"
                  /\ dbcalls[j].key = ExpKey(CallKeys[j], call.obj)
                  /\ (dbcalls[j].r = 0) = (j < Len(dbcalls)))
    /\ [](txn # "active" => store = committed)
    /\ [][committed' # committed => txn = "active" /\ txn' = "committed"]_vars

\* a two-key insert that failed at its second put, after its transaction was
\* aborted: the entry of its first key, which the call had put, is gone
C15_Witness ==
    /\ InsertFailedAtPut
    /\ Len(dbcalls) = 2
    /\ txn = "aborted"
    /\ dbcalls[1].key \notin DOMAIN prevStore
    /\ dbcalls[1].key \notin DOMAIN store

\* C16: every put of insert carries DB_NOOVERWRITE exactly when the index is
\* unique and overwrite is false. On a non-unique index, and on a unique one
\* with overwrite, insert never returns DuplicateKey, returns Ok whenever the
\* store answers its puts, and each put that was answered, also one onto a
\* physical key already present, left the value of this call under its key.
C16_RejectOnlyUniqueNoOverwrite ==
    InsertReturned =>
        /\ \A j \in 1 .. Len(dbcalls) :
              dbcalls[j].flags =
                  IF info.unique /\ ~call.overwrite THEN DB_NOOVERWRITE ELSE 0
        /\ (~info.unique \/ call.overwrite) =>
              /\ result # "DuplicateKey"
              /\ ~StoreFailed => (result = "Ok" /\ Len(dbcalls) = NKeys)
              /\ \A j \in 1 .. Len(dbcalls) :
                    dbcalls[j].r = 0 =>
                        /\ dbcalls[j].key \in DOMAIN store
                        /\ store[dbcalls[j].key] =
                              IF IsIdIndex \/ Clustering
                              THEN DocTab[call.obj] ELSE EmptyObj

\* an insert with overwrite on a unique index whose put replaced the value
\* that was under its physical key
C16_Witness ==
    /\ InsertReturned /\ result = "Ok"
    /\ info.unique /\ call.overwrite
    /\ \E j \in 1 .. Len(dbcalls) :
          /\ dbcalls[j].key \in DOMAIN prevStore
          /\ prevStore[dbcalls[j].key] # store[dbcalls[j].key]

\* the physical keys prescribed for the document of the last call
CallEntries == { ExpKey(CallKeys[i], call.obj) : i \in 1 .. NKeys }

\* C18: insert and deleteObject of D change no entry but those whose
\* physical key is built from an extracted key of D (with the pk of the call
\* unless this is the id index): every other entry is there before and after
\* with the same value. For a document without extracted keys they issue no
\* store request and leave the dictionary and the multikey flag as they were.
C18_Frame ==
    /\ [](call.op \in { "insert", "deleteObject" } =>
            /\ \A e \in ((DOMAIN prevStore) \cup (DOMAIN store)) \ CallEntries :
                  /\ e \in DOMAIN prevStore /\ e \in DOMAIN store
                  /\ store[e] = prevStore[e]
            /\ \A j \in 1 .. Len(dbcalls) : dbcalls[j].key \in CallEntries
            /\ NKeys = 0 => (dbcalls = << >> /\ store = prevStore /\ result = "Ok"))
    /\ [][(/\ call'.op \in { "insert", "deleteObject" }
            /\ GetKeysFromObject(call'.obj) = << >>)
              => (multikey' = multikey /\ store' = store)]_vars

\* a deleteObject on a non-unique index that removed the entry of its
\* document and left the entry another document has under the same
\* extracted key
C18_Witness ==
    /\ call.op = "deleteObject" /\ result = "Ok" /\ ~info.unique
    /\ CallEntries \cap (DOMAIN prevStore) # {}
    /\ CallEntries \cap (DOMAIN store) = {}
    /\ \E e \in DOMAIN store :
          /\ EntryPk(e) # PkOf(call.obj)
          /\ \E i \in 1 .. NKeys : DecodeKey(e).key = CallKeys[i]

\* C17: no thread holds the lock of the spec cache while its put, delete or
\* cursor request is in progress, and while a thread extracts keys the
\* IndexSpec it obtained under the lock is the one the cache holds, also
\* when kill_idx invalidates the cache meanwhile.
C17_LockAndSpecValid ==
    \A t \in Threads :
        /\ threads[t].pc = "io" => lock # t
        /\ threads[t].pc = "extract" => (cache # 0 /\ refs[t] = cache)

=========================================================================
